---- MODULE Spec2Model ----
(***************************************************************************)
(* Model of scripts/python/convert_to_parquet.py: one run of main(), which *)
(* calls convert_csv_to_parquet(csv_path, parquet_path, chunk_size).       *)
(*                                                                         *)
(* The filesystem is the part of the world the script reads and writes:    *)
(* the source CSV, the chain of directories above the destination, and the *)
(* destination file.  A CSV file is its header line and its data lines; a  *)
(* field is a number, 0 standing for an empty field.  Every run starts     *)
(* from an arbitrary filesystem of the bounded shape below.                *)
(***************************************************************************)
EXTENDS Integers, Sequences, FiniteSets

(* ------------------------------ bounds -------------------------------- *)

\* Most data lines a source CSV holds.
MaxRows == 2

\* Directory levels between an existing root and the destination file
\* (main() has two: data/ and data/processed/).
DirDepth == 2

\* The size in bytes of a destination file that is there before the run,
\* and of what an interrupted write leaves behind.
OldDestBytes == 77
PartialBytes == 3

\* Sizes in bytes the columnar writer may emit for a complete file: the
\* codec decides, so the size is an input of the write step.  The first is
\* below every source size, the second above (a negative ratio).
ParquetSizes == {5, 64}

\* The fields of a data line: <<i, c>> puts i in the invoice and date
\* fields and c in every other field; 0 is an empty field.
LinePatterns == { <<1, 1>>, <<1, 2>>, <<2, 1>>, <<0, 1>>, <<2, 0>> }

(* --------------------------- program constants ------------------------ *)

BytesPerMB == 1048576
DefaultChunkSize == 100000
ChunkSizes == {1, DefaultChunkSize}

DateColumn == "InvoiceDate"
InvoiceColumn == "Invoice"
ProductColumn == "StockCode"
CustomerColumn == "Customer ID"
IndexColumn == "__index_level_0__"

(* ------------------------------ the files ----------------------------- *)

\* Header lines of the sources considered: the expected columns, a file
\* without the timestamp column, a file without the customer column, and
\* the expected columns followed by one more.
Headers ==
    { <<InvoiceColumn, ProductColumn, DateColumn, CustomerColumn>>,
      <<InvoiceColumn, ProductColumn, CustomerColumn>>,
      <<InvoiceColumn, ProductColumn, DateColumn>>,
      <<InvoiceColumn, ProductColumn, DateColumn, CustomerColumn, "Country">> }

DataLine(h, p) ==
    [j \in 1..Len(h) |-> IF h[j] \in {InvoiceColumn, DateColumn} THEN p[1] ELSE p[2]]

DataLines(h) == { DataLine(h, p) : p \in LinePatterns }

SeqsUpTo(S, n) == UNION { [1..k -> S] : k \in 0..n }

\* st_size of a CSV text: every field is one byte and is followed by one
\* separator or line end.
CsvBytes(h, lines) == 2 * Len(h) * (1 + Len(lines))

CsvFile(utf8, h, lines) ==
    [exists |-> TRUE, utf8 |-> utf8, header |-> h, lines |-> lines,
     bytes |-> CsvBytes(h, lines)]

Absent == [exists |-> FALSE]

\* Well-formed sources, one source that is not UTF-8, one zero-byte source.
SourceFiles ==
    UNION { { CsvFile(TRUE, h, ls) : ls \in SeqsUpTo(DataLines(h), MaxRows) } : h \in Headers }
    \cup { CsvFile(FALSE, <<InvoiceColumn, ProductColumn, DateColumn, CustomerColumn>>, <<>>),
           CsvFile(TRUE, <<>>, <<>>) }

\* A destination file left by an earlier run, and an interrupted write.
OldDest == [exists |-> TRUE, kind |-> "old", bytes |-> OldDestBytes]
PartialDest == [exists |-> TRUE, kind |-> "partial", bytes |-> PartialBytes]

\* The directories above the destination, outermost first: each level is
\* absent, a directory, or a regular file in the way.  Nothing lies below
\* a level that is not a directory.
DirChains ==
    { ds \in [1..DirDepth -> {"absent", "dir", "file"}] :
        \A k \in 2..DirDepth : ds[k] # "absent" => ds[k-1] = "dir" }

FileSystems ==
    { [csv |-> c, dirs |-> ds, dest |-> d] :
        c \in {Absent} \cup SourceFiles,
        ds \in DirChains,
        d \in {Absent, OldDest} }

ParentExists(f) == f.dirs[DirDepth] = "dir"

(* ----------------------------- exceptions ----------------------------- *)

NoExc == [type |-> "none", text |-> ""]
Exc(type, text) == [type |-> type, text |-> text]

\* isinstance(e, FileNotFoundError): the first except clause.
IsFileNotFound(e) == e.type = "FileNotFoundError"

(* --------------------------- get_file_size_mb ------------------------- *)

RECURSIVE GCD(_, _)
GCD(a, b) == IF b = 0 THEN a ELSE GCD(b, a % b)

Abs(n) == IF n < 0 THEN -n ELSE n

\* A quotient num/den, den > 0, in lowest terms.
Rat(num, den) ==
    LET g == GCD(Abs(num), den)
    IN  [num |-> num \div g, den |-> den \div g]

RatDiv(a, b) == Rat(a.num * b.den, a.den * b.num)
RatSub(a, b) == Rat(a.num * b.den - b.num * a.den, a.den * b.den)
RatMul(a, b) == Rat(a.num * b.num, a.den * b.den)
RatInt(n) == [num |-> n, den |-> 1]

get_file_size_mb(file) == Rat(file.bytes, BytesPerMB)

compression_ratio_flipped(csv_size, parquet_size) ==
    RatMul(RatSub(RatInt(1), RatDiv(csv_size, parquet_size)), RatInt(100))

\* (1 - parquet_size / csv_size) * 100
compression_ratio(csv_size, parquet_size) ==
    RatMul(RatSub(RatInt(1), RatDiv(parquet_size, csv_size)), RatInt(100))

(* ------------------------------- read_csv ----------------------------- *)

NaN == [t |-> "NaN", v |-> 0]
NaT == [t |-> "NaT", v |-> 0]

\* One field as the parser types it: an empty field is missing; a field
\* of a parse_dates column becomes a timestamp.
ParseField(col, v, parse_dates) ==
    IF col \in parse_dates
    THEN IF v = 0 THEN NaT ELSE [t |-> "Timestamp", v |-> v]
    ELSE IF v = 0 THEN NaN ELSE [t |-> "int", v |-> v]

Frame(columns, data) == [columns |-> columns, data |-> data]
NoFrame == Frame(<<>>, <<>>)

Loaded(frame) == [exc |-> NoExc, df |-> frame]
Raised(e) == [exc |-> e, df |-> NoFrame]

\* pd.read_csv(path, encoding='utf-8', parse_dates=...) with nrows rows
\* at most (nrows < 0: all of them).
read_csv(file, parse_dates, nrows) ==
    IF ~file.exists
    THEN Raised(Exc("FileNotFoundError", "No such file or directory"))
    ELSE IF ~file.utf8
    THEN Raised(Exc("UnicodeDecodeError", "codec can't decode byte"))
    ELSE IF Len(file.header) = 0
    THEN Raised(Exc("EmptyDataError", "No columns to parse from file"))
    ELSE IF \E c \in parse_dates : \A j \in 1..Len(file.header) : file.header[j] # c
    THEN Raised(Exc("ValueError", "Missing column provided to 'parse_dates'"))
    ELSE LET n == IF nrows < 0 \/ nrows > Len(file.lines)
                  THEN Len(file.lines) ELSE nrows
         IN  Loaded(Frame(file.header,
                 [i \in 1..n |->
                     [j \in 1..Len(file.header) |->
                         ParseField(file.header[j], file.lines[i][j], parse_dates)]]))

LoadFrame_chunked(file, chunk) == read_csv(file, {DateColumn}, chunk)

\* Lines 45-49: the whole file, whatever chunk_size is.
LoadFrame(file, chunk) == read_csv(file, {DateColumn}, -1)

(* ------------------------------ statistics ---------------------------- *)

HasColumn(frame, col) == \E j \in 1..Len(frame.columns) : frame.columns[j] = col

ColumnIndex(frame, col) == CHOOSE j \in 1..Len(frame.columns) : frame.columns[j] = col

\* df[col]
Series(frame, col) ==
    LET j == ColumnIndex(frame, col)
    IN  [i \in 1..Len(frame.data) |-> frame.data[i][j]]

IsNA(x) == x.t \in {"NaN", "NaT"}

Contains(s, x) == \E i \in 1..Len(s) : s[i] = x

\* The distinct values of a series in order of first appearance.
RECURSIVE Uniques(_, _)
Uniques(s, seen) ==
    IF Len(s) = 0 THEN seen
    ELSE Uniques(Tail(s), IF Contains(seen, Head(s)) THEN seen ELSE Append(seen, Head(s)))

count(s) == Len(SelectSeq(s, LAMBDA x : ~IsNA(x)))

\* Series.nunique(): dropna=True
nunique(s) == Len(SelectSeq(Uniques(s, <<>>), LAMBDA x : ~IsNA(x)))

\* Series.min() / Series.max(): missing values are skipped
SeriesMin(s) ==
    LET vals == { s[i].v : i \in { k \in 1..Len(s) : ~IsNA(s[k]) } }
    IN  IF vals = {} THEN NaT
        ELSE [t |-> "Timestamp", v |-> CHOOSE m \in vals : \A x \in vals : m <= x]

SeriesMax(s) ==
    LET vals == { s[i].v : i \in { k \in 1..Len(s) : ~IsNA(s[k]) } }
    IN  IF vals = {} THEN NaT
        ELSE [t |-> "Timestamp", v |-> CHOOSE m \in vals : \A x \in vals : m >= x]

CountDistinct_count(frame, col) == count(Series(frame, col))

\* df[col].nunique()
CountDistinct(frame, col) == nunique(Series(frame, col))

(* -------------------------------- mkdir ------------------------------- *)

MkResult(dirs, quota, e) == [dirs |-> dirs, quota |-> quota, exc |-> e]

\* os.mkdir of level d, its parent being a directory: quota is the number
\* of directories the volume still lets the process create.
OsMkdir(dirs, d, quota) ==
    IF quota = 0
    THEN MkResult(dirs, quota, Exc("OSError", "No space left on device"))
    ELSE MkResult([dirs EXCEPT ![d] = "dir"], quota - 1, NoExc)

\* Path.mkdir(parents, exist_ok) of level d; level 0 is the existing root.
RECURSIVE PathMkdir(_, _, _, _, _)
PathMkdir(dirs, d, quota, parents, exist_ok) ==
    IF d = 0 \/ dirs[d] = "dir"
    THEN IF exist_ok THEN MkResult(dirs, quota, NoExc)
         ELSE MkResult(dirs, quota, Exc("FileExistsError", "File exists"))
    ELSE IF dirs[d] = "file"
    THEN MkResult(dirs, quota, Exc("FileExistsError", "File exists"))
    ELSE IF d = 1 \/ dirs[d-1] = "dir"
    THEN OsMkdir(dirs, d, quota)
    ELSE IF dirs[d-1] = "file"
    THEN MkResult(dirs, quota, Exc("NotADirectoryError", "Not a directory"))
    ELSE IF ~parents
    THEN MkResult(dirs, quota, Exc("FileNotFoundError", "No such file or directory"))
    ELSE LET up == PathMkdir(dirs, d - 1, quota, TRUE, TRUE)
         IN  IF up.exc # NoExc THEN up ELSE OsMkdir(up.dirs, d, up.quota)

MakeParent_strict(dirs, quota) == PathMkdir(dirs, DirDepth, quota, TRUE, FALSE)

\* Line 66: parquet_path.parent.mkdir(parents=True, exist_ok=True)
MakeParent(dirs, quota) == PathMkdir(dirs, DirDepth, quota, TRUE, TRUE)

(* ------------------------------ to_parquet ---------------------------- *)

\* DataFrame.to_parquet: the table stored column by column; index=True
\* stores the row index as one more column.
to_parquet(frame, index, bytes) ==
    LET n == Len(frame.data)
        m == Len(frame.columns)
        cols == [j \in 1..m |-> [i \in 1..n |-> frame.data[i][j]]]
    IN  [exists |-> TRUE, kind |-> "parquet", bytes |-> bytes, num_rows |-> n,
         schema |-> IF index THEN Append(frame.columns, IndexColumn) ELSE frame.columns,
         chunks |-> IF index
                    THEN Append(cols, [i \in 1..n |-> [t |-> "int", v |-> i - 1]])
                    ELSE cols]

WriteFrame_indexed(frame, bytes) == to_parquet(frame, TRUE, bytes)

\* Lines 70-75: engine='pyarrow', compression='snappy', index=False
WriteFrame(frame, bytes) == to_parquet(frame, FALSE, bytes)

\* Reading a columnar file back into rows.
read_parquet(file) ==
    Frame(file.schema,
          [i \in 1..file.num_rows |->
              [j \in 1..Len(file.schema) |-> file.chunks[j][i]]])

(* ------------------------------ the run ------------------------------- *)

VARIABLES
    pc,          \* the statement the run is at; "exited" once the process ended
    fs,          \* the filesystem
    chunk_size,  \* the chunk_size argument of convert_csv_to_parquet
    df,          \* the local df
    exc,         \* the exception being handled
    printed,     \* what the process has written to stdout and stderr, in order
    exit_code,   \* the exit status of the process; -1 while it runs
    fs0,         \* the filesystem when the run started
    failed_at    \* the step that raised, "none" if none did

vars == <<pc, fs, chunk_size, df, exc, printed, exit_code, fs0, failed_at>>

Line(msg, val) == [msg |-> msg, val |-> val]

Said(msg) == \E i \in 1..Len(printed) : printed[i].msg = msg

ValueSaid(msg) == printed[CHOOSE i \in 1..Len(printed) : printed[i].msg = msg].val

Init ==
    /\ pc = "main"
    /\ fs \in FileSystems
    /\ fs.dest.exists => ParentExists(fs)
    /\ chunk_size \in ChunkSizes
    /\ df = NoFrame
    /\ exc = NoExc
    /\ printed = <<>>
    /\ exit_code = -1
    /\ fs0 = fs
    /\ failed_at = "none"

\* The order of the statements of the try block.
Following_mkdir_first(step) ==
    CASE step = "size"  -> "mkdir"
      [] step = "mkdir" -> "load"
      [] step = "load"  -> "stats"
      [] step = "stats" -> "write"
      [] step = "write" -> "report"
      [] step = "report" -> "epilogue"

Following(step) ==
    CASE step = "size"  -> "load"
      [] step = "load"  -> "stats"
      [] step = "stats" -> "mkdir"
      [] step = "mkdir" -> "write"
      [] step = "write" -> "report"
      [] step = "report" -> "epilogue"

\* raise inside the try block: control goes to the except clauses.
Raise(step, e) ==
    /\ pc' = "except"
    /\ exc' = e
    /\ failed_at' = step

SysExit_returns(code) ==
    /\ pc' = "epilogue"
    /\ exit_code' = exit_code

\* sys.exit(code): SystemExit is caught nowhere, the process ends.
SysExit(code) ==
    /\ pc' = "exited"
    /\ exit_code' = code

\* Lines 105-113: the paths and the banner.
MainBanner ==
    /\ pc = "main"
    /\ printed' = Append(printed, Line("CSV to Parquet Conversion Tool", 0))
    /\ pc' = "size"
    /\ UNCHANGED <<fs, chunk_size, df, exc, exit_code, fs0, failed_at>>

ReportSourceSize_swallowed ==
    /\ pc = "size"
    /\ IF fs.csv.exists
       THEN /\ printed' = printed \o << Line("Reading CSV file", 0),
                                         Line("File size", get_file_size_mb(fs.csv)) >>
            /\ pc' = Following("size")
            /\ failed_at' = failed_at
       ELSE /\ printed' = printed \o << Line("Reading CSV file", 0),
                                         Line("Error: CSV file not found", 0) >>
            /\ pc' = "epilogue"
            /\ failed_at' = "size"
    /\ UNCHANGED <<fs, chunk_size, df, exc, exit_code, fs0>>

\* Lines 38-39, before the try block: stat() of a missing source raises
\* FileNotFoundError with no handler around it, so the interpreter writes
\* the traceback to stderr and the process ends with status 1.
ReportSourceSize ==
    /\ pc = "size"
    /\ IF fs.csv.exists
       THEN /\ printed' = printed \o << Line("Reading CSV file", 0),
                                         Line("File size", get_file_size_mb(fs.csv)) >>
            /\ pc' = Following("size")
            /\ UNCHANGED <<exit_code, failed_at>>
       ELSE /\ printed' = printed \o << Line("Reading CSV file", 0),
                                         Line("Traceback (most recent call last)",
                                              "FileNotFoundError") >>
            /\ pc' = "exited"
            /\ exit_code' = 1
            /\ failed_at' = "size"
    /\ UNCHANGED <<fs, chunk_size, df, exc, fs0>>

\* Lines 45-56: load the table, then its shape and column names; chunk is
\* the chunk_size argument, in scope here.
LoadWith(chunk) ==
    /\ pc = "load"
    /\ LET r == LoadFrame(fs.csv, chunk)
       IN  IF r.exc = NoExc
           THEN /\ df' = r.df
                /\ printed' = printed \o << Line("Dataset loaded successfully", 0),
                                             Line("Rows", Len(r.df.data)),
                                             Line("Columns", Len(r.df.columns)),
                                             Line("Column names", r.df.columns) >>
                /\ pc' = Following("load")
                /\ UNCHANGED <<exc, failed_at>>
           ELSE /\ Raise("load", r.exc)
                /\ UNCHANGED <<df, printed>>
    /\ UNCHANGED <<fs, chunk_size, exit_code, fs0>>

Load == LoadWith(chunk_size)

\* The statistics lines in the order they are printed.
StatLines ==
    << <<"Unique invoices", InvoiceColumn>>,
       <<"Unique products", ProductColumn>>,
       <<"Unique customers", CustomerColumn>> >>

\* Lines 59-63: each line is printed as soon as it is computed; df[col]
\* of a column the table lacks raises KeyError.
Statistics ==
    /\ pc = "stats"
    /\ LET missing == { k \in 1..Len(StatLines) : ~HasColumn(df, StatLines[k][2]) }
           upto == IF missing = {} THEN Len(StatLines)
                   ELSE (CHOOSE k \in missing : \A x \in missing : k <= x) - 1
           head == << Line("Date range", << SeriesMin(Series(df, DateColumn)),
                                            SeriesMax(Series(df, DateColumn)) >>) >>
           rest == [k \in 1..upto |->
                       Line(StatLines[k][1], CountDistinct(df, StatLines[k][2]))]
       IN  /\ printed' = printed \o head \o rest
           /\ IF missing = {}
              THEN /\ pc' = Following("stats")
                   /\ UNCHANGED <<exc, failed_at>>
              ELSE Raise("stats", Exc("KeyError", StatLines[upto + 1][2]))
    /\ UNCHANGED <<fs, chunk_size, df, exit_code, fs0>>

\* Line 66: create the destination's directory.
MakeDirs ==
    /\ pc = "mkdir"
    /\ \E quota \in 0..DirDepth :
          LET r == MakeParent(fs.dirs, quota)
          IN  /\ fs' = [fs EXCEPT !.dirs = r.dirs]
              /\ IF r.exc = NoExc
                 THEN /\ pc' = Following("mkdir")
                      /\ UNCHANGED <<exc, failed_at>>
                 ELSE Raise("mkdir", r.exc)
    /\ UNCHANGED <<chunk_size, df, printed, exit_code, fs0>>

\* What the writer's failure can be: the destination cannot be opened
\* (it is a link to a path that does not exist: FileNotFoundError; it is
\* not writable: PermissionError), or the volume fills up while the file
\* is written, which leaves a partial file.
WriteFailures(f) ==
    { [exc |-> Exc("FileNotFoundError", "Failed to open local file"), dest |-> f.dest],
      [exc |-> Exc("PermissionError", "Permission denied"), dest |-> f.dest],
      [exc |-> Exc("OSError", "No space left on device"), dest |-> PartialDest] }

\* Lines 69-75: write the table.
Write ==
    /\ pc = "write"
    /\ \/ \E bytes \in ParquetSizes :
             /\ fs' = [fs EXCEPT !.dest = WriteFrame(df, bytes)]
             /\ pc' = Following("write")
             /\ UNCHANGED <<exc, failed_at>>
       \/ \E w \in WriteFailures(fs) :
             /\ fs' = [fs EXCEPT !.dest = w.dest]
             /\ Raise("write", w.exc)
    /\ printed' = Append(printed, Line("Converting to Parquet format...", 0))
    /\ UNCHANGED <<chunk_size, df, exit_code, fs0>>

\* Lines 77-92: the sizes, measured now, and the summary.
Report ==
    /\ pc = "report"
    /\ LET csv_size == get_file_size_mb(fs.csv)
           parquet_size == get_file_size_mb(fs.dest)
       IN  IF csv_size.num = 0
           THEN /\ printed' = printed \o << Line("Parquet file created", 0),
                                             Line("File size", parquet_size) >>
                /\ Raise("report", Exc("ZeroDivisionError", "float division by zero"))
           ELSE /\ printed' = printed \o
                       << Line("Parquet file created", 0),
                          Line("File size", parquet_size),
                          Line("CONVERSION SUMMARY",
                               [csv_size |-> csv_size,
                                parquet_size |-> parquet_size,
                                compression_ratio |-> compression_ratio(csv_size, parquet_size),
                                rows |-> Len(df.data)]) >>
                /\ pc' = Following("report")
                /\ UNCHANGED <<exc, failed_at>>
    /\ UNCHANGED <<fs, chunk_size, df, exit_code, fs0>>

\* Lines 94-96: except FileNotFoundError
ExceptFileNotFound ==
    /\ pc = "except"
    /\ IsFileNotFound(exc)
    /\ printed' = Append(printed, Line("Error: CSV file not found", 0))
    /\ SysExit(1)
    /\ UNCHANGED <<fs, chunk_size, df, exc, fs0, failed_at>>

\* Lines 97-99: except Exception as e
ExceptException ==
    /\ pc = "except"
    /\ ~IsFileNotFound(exc)
    /\ printed' = Append(printed, Line("Error during conversion", exc.text))
    /\ SysExit(1)
    /\ UNCHANGED <<fs, chunk_size, df, exc, fs0, failed_at>>

convert_csv_to_parquet(chunk) ==
    \/ ReportSourceSize
    \/ LoadWith(chunk)
    \/ Statistics
    \/ MakeDirs
    \/ Write
    \/ Report
    \/ ExceptFileNotFound
    \/ ExceptException

\* Lines 118-122: reached when convert_csv_to_parquet returned; the
\* process then ends with status 0.
MainEpilogue ==
    /\ pc = "epilogue"
    /\ printed' = printed \o << Line("Conversion completed successfully!", 0),
                                 Line("Next steps", 0) >>
    /\ pc' = "exited"
    /\ exit_code' = 0
    /\ UNCHANGED <<fs, chunk_size, df, exc, fs0, failed_at>>

\* One step of main() when convert_csv_to_parquet was called with chunk.
main(chunk) ==
    \/ MainBanner
    \/ convert_csv_to_parquet(chunk)
    \/ MainEpilogue

\* main(chunk_size), one action per step.
Next ==
    \/ MainBanner
    \/ ReportSourceSize
    \/ Load
    \/ Statistics
    \/ MakeDirs
    \/ Write
    \/ Report
    \/ ExceptFileNotFound
    \/ ExceptException
    \/ MainEpilogue

Spec == Init /\ [][Next]_vars

(* ------------------------------ the claims ---------------------------- *)

Exited == pc = "exited"
SourceMissing == ~fs0.csv.exists
SuccessMessage == "Conversion completed successfully!"
Summary == "CONVERSION SUMMARY"

\* The destination file is one this run wrote completely.
Written == fs.dest.exists /\ fs.dest.kind = "parquet"

\* C1: when the source CSV does not exist, the process ends with exit code
\* 1, and at no point of the run is the destination file or any directory
\* above it created: the filesystem stays as the run found it.
C1_MissingSourceExitsOne ==
    SourceMissing => /\ fs = fs0
                     /\ Exited => exit_code = 1

\* A run on a missing source, with every directory above the destination
\* missing too, has ended.
C1_Witness ==
    /\ Exited
    /\ SourceMissing
    /\ \A k \in 1..DirDepth : fs0.dirs[k] = "absent"
    /\ exit_code = 1

\* C2: when the source CSV does not exist, the run prints the
\* source-not-found message of the first except clause before it ends with
\* a non-zero exit code.
C2_MissingSourceHandled ==
    (Exited /\ SourceMissing) =>
        /\ Said("Error: CSV file not found")
        /\ exit_code # 0

\* C3: a run ends with exit code 0 exactly when load, statistics, write and
\* size report all succeeded, and otherwise with exit code 1; an exception
\* raised while loading, computing the statistics or writing (creating the
\* directory included) has its text printed before the exit.
C3_ExitCodeAndExceptionText ==
    Exited =>
        /\ exit_code \in {0, 1}
        /\ exit_code = 0 <=> (failed_at = "none" /\ Said(Summary))
        /\ failed_at \in {"load", "stats", "mkdir", "write"} =>
              /\ exit_code = 1
              /\ Said("Error during conversion")
              /\ ValueSaid("Error during conversion") = exc.text

\* C4: once the write has succeeded, the destination file reads back as
\* the N data lines and the M column names of the source CSV, each field as
\* the load step typed it: it is the table the load step produced, with no
\* row or column added, dropped or changed, and no row-index column.
C4_RoundTrip ==
    Written =>
        LET back == read_parquet(fs.dest)
            src == fs0.csv
        IN  /\ back.columns = src.header
            /\ Len(back.data) = Len(src.lines)
            /\ \A i \in 1..Len(src.lines) : \A j \in 1..Len(src.header) :
                  back.data[i][j] = ParseField(src.header[j], src.lines[i][j], {DateColumn})
            /\ back = df
            /\ \A j \in 1..Len(fs.dest.schema) : fs.dest.schema[j] # IndexColumn

\* A source of MaxRows data lines and five columns has been converted.
C4_Witness ==
    /\ Exited
    /\ exit_code = 0
    /\ Written
    /\ Len(fs0.csv.lines) = MaxRows
    /\ Len(fs0.csv.header) = 5
    /\ fs.dest.num_rows = MaxRows

\* C5: the write step starts, and the destination file changes, only with
\* the destination's directory in place; and when that directory is
\* already there, the directory step changes nothing, raises nothing and
\* goes on to the write step.
C5_DirectoryBeforeWrite ==
    [][ /\ pc' = "write" => ParentExists(fs')
        /\ fs'.dest # fs.dest => (pc = "write" /\ ParentExists(fs))
        /\ (pc = "mkdir" /\ ParentExists(fs)) =>
              (fs' = fs /\ pc' = "write" /\ failed_at' = failed_at) ]_vars

\* A run that found every directory above the destination missing has
\* succeeded, the directories and the file now in place.
C5_Witness ==
    /\ Exited
    /\ exit_code = 0
    /\ \A k \in 1..DirDepth : fs0.dirs[k] = "absent"
    /\ \A k \in 1..DirDepth : fs.dirs[k] = "dir"
    /\ Written

C7_CompressionRatio ==
    Said(Summary) =>
        LET r == ValueSaid(Summary).compression_ratio
        IN  /\ Written
            /\ r.den > 0
            /\ r.num * fs.csv.bytes = 100 * (fs.csv.bytes - fs.dest.bytes) * r.den

\* A run that replaced an older destination file has reported a positive
\* ratio.
C7_Witness ==
    /\ Said(Summary)
    /\ fs0.dest = OldDest
    /\ ValueSaid(Summary).compression_ratio.num > 0
    /\ Len(fs0.csv.lines) = MaxRows

\* The non-empty fields of column col of the source text.
TrueDistinct(col) ==
    LET src == fs0.csv
        j == CHOOSE k \in 1..Len(src.header) : src.header[k] = col
    IN  Cardinality({ src.lines[i][j] : i \in 1..Len(src.lines) } \ {0})

\* C8: each reported unique count (invoices, products, customers) is the
\* number of distinct values the source has in that column, empty fields
\* not being values, however often a value repeats.
C8_DistinctCounts ==
    \A k \in 1..Len(StatLines) :
        Said(StatLines[k][1]) => ValueSaid(StatLines[k][1]) = TrueDistinct(StatLines[k][2])

\* The statistics of a source whose MaxRows data lines all carry the same
\* invoice have been printed.
C8_Witness ==
    /\ Said("Unique customers")
    /\ Len(fs0.csv.lines) = MaxRows
    /\ MaxRows > 1
    /\ \A i \in 1..MaxRows : fs0.csv.lines[i][1] = 1
    /\ ValueSaid("Unique invoices") = 1

\* C9: the success message is printed only after the summary, in a run in
\* which no step raised, and that run ends with exit code 0; a run that
\* ends with exit code 1 has not printed it.
C9_SuccessMessageOnlyOnSuccess ==
    /\ Said(SuccessMessage) =>
          /\ failed_at = "none"
          /\ exit_code = 0
          /\ \E i \in 1..Len(printed) : \E j \in (i+1)..Len(printed) :
                printed[i].msg = Summary /\ printed[j].msg = SuccessMessage
    /\ exit_code = 1 => ~Said(SuccessMessage)

\* A run whose write failed has ended with exit code 1.
C9_Witness ==
    /\ Exited
    /\ exit_code = 1
    /\ failed_at = "write"
    /\ ~Said(SuccessMessage)

\* C10, as amended: a run that fails in the load step or the statistics
\* step leaves the filesystem as it found it; a failed run that changed the
\* filesystem failed in the directory step, in the write step or after it,
\* and one that left a partial destination file failed in the write step.
C10_EarlyFailureLeavesFilesystem ==
    /\ failed_at \in {"load", "stats"} => fs = fs0
    /\ (Exited /\ exit_code = 1 /\ fs # fs0) => failed_at \in {"mkdir", "write", "report"}
    /\ (Exited /\ fs.dest = PartialDest) => failed_at = "write"

\* C10, as stated: a run that fails in the load step or the statistics step
\* leaves the filesystem as it found it, and a failed run that changed the
\* filesystem failed in the write step or after it.
C10_OnlyWriteFailureLeavesTraces ==
    /\ failed_at \in {"load", "stats"} => fs = fs0
    /\ (Exited /\ exit_code = 1 /\ fs # fs0) => failed_at \in {"write", "report"}

\* A run on a source without the customer column, the destination's
\* directories missing, has failed in the statistics step.
C10_Witness ==
    /\ Exited
    /\ failed_at = "stats"
    /\ exit_code = 1
    /\ fs0.dirs[1] = "absent"
    /\ fs = fs0

====
